---- MODULE Spec2Model ----
(***************************************************************************)
(* ComputeFabric orchestrator: the job store (JobQueue), the scheduler     *)
(* (JobRunner.processQueue), the settlement connector (StripeConnector)    *)
(* and the HTTP handlers of orchestrator/src/index.ts; the JobRunner's     *)
(* start, stop and interval with the shutdown handlers of index.ts, and    *)
(* the in-memory JobQueue of scheduling/job-queue.ts.                      *)
(*                                                                         *)
(* Every handler is an async function: each `await db...` is one database  *)
(* statement, and other handlers run between two statements of one         *)
(* handler.  The model therefore has one action per database statement of  *)
(* a handler; the synchronous code between two awaits belongs to the       *)
(* action of the statement it follows.  A handler's arrival and its first  *)
(* statement are one action (nothing is visible before the statement).     *)
(*                                                                         *)
(* Time is in milliseconds (Date.getTime()), money in cents.               *)
(***************************************************************************)
EXTENDS Integers, Sequences, FiniteSets, TLC

\* ---------------------------------------------------------------- bounds
MaxJobs == 2        \* job rows ever created
MaxProviders == 2   \* provider ids
MaxReq == 2         \* handlers (requests, ticks) in flight at once
MaxOps == 3         \* handlers started in one behaviour
MaxClock == 1       \* clock steps
MaxExecTime == 1    \* largest executionTime (minutes) a provider reports
MaxAmount == 2      \* largest amount (cents) chargeForJob is called with
MaxStartUnits == 2  \* latest startTime calculateJobCost is called with, in TimeUnits
MaxEndUnits == 200  \* latest endTime calculateJobCost is called with, in TimeUnits
MaxCost == 100      \* largest jobCost (cents) calculateProviderEarnings is called with
MaxImageLen == 3    \* longest image name drawn from ImageAlphabet
MaxLimit == 2       \* largest limit a listing is asked with
MaxTimers == 2      \* Timeout objects setInterval can hand out
MaxQueueCalls == 5  \* calls made on one in-memory JobQueue

\* one clock step: a minute, in milliseconds
ClockStep == 60 * 1000

\* SQL NULL / JS undefined, for ids and timestamps
NULL == -1

Providers == 1 .. MaxProviders
Slots == 1 .. MaxReq
Users == {"u1"}
\* req.body.executionTime in minutes, which nothing validates: <<>> when the
\* report has none, <<m>> when it has one, a negative or zero one included
ExecTimes == { <<>> } \cup { <<m>> : m \in -1 .. MaxExecTime }
\* req.body.status: the three the handler knows and one it answers 400
ReportStatuses == {"running", "completed", "failed", "paused"}

\* ------------------------------------------------------- docker-manager.ts
Lower == {"a", "b", "c", "d", "e", "f", "g", "h", "i", "j", "k", "l", "m",
          "n", "o", "p", "q", "r", "s", "t", "u", "v", "w", "x", "y", "z"}
Upper == {"A", "B", "C", "D", "E", "F", "G", "H", "I", "J", "K", "L", "M",
          "N", "O", "P", "Q", "R", "S", "T", "U", "V", "W", "X", "Y", "Z"}
Digit == {"0", "1", "2", "3", "4", "5", "6", "7", "8", "9"}
Alnum == Lower \cup Upper \cup Digit
Word == Alnum \cup {"_"}

\* the image names a caller submits: one the validator accepts, one it rejects
\* and the empty string
Images == { <<"c", "u", "d", "a", ":", "1", ".", "0">>, <<"a", "_", "b">>, <<>> }

ColonAt(s) == { i \in 1 .. Len(s) : s[i] = ":" }

\* [a-z0-9]+(\/[a-z0-9]+)* , case-insensitive
ValidPath(p) ==
    /\ Len(p) >= 1
    /\ \A i \in 1 .. Len(p) : p[i] \in Alnum \cup {"/"}
    /\ p[1] # "/"
    /\ p[Len(p)] # "/"
    /\ \A i \in 1 .. Len(p) - 1 : ~(p[i] = "/" /\ p[i + 1] = "/")

\* [\w][\w.-]{0,127}
ValidTag(t) ==
    /\ Len(t) >= 1
    /\ Len(t) <= 128
    /\ t[1] \in Word
    /\ \A i \in 2 .. Len(t) : t[i] \in Word \cup {".", "-"}

validateImageName(imageName) ==
    IF Len(imageName) = 0
    THEN FALSE
    ELSE IF ColonAt(imageName) = {}
         THEN ValidPath(imageName)
         ELSE LET c == CHOOSE i \in ColonAt(imageName) :
                           \A k \in ColonAt(imageName) : i <= k
              IN /\ ValidPath(SubSeq(imageName, 1, c - 1))
                 /\ ValidTag(SubSeq(imageName, c + 1, Len(imageName)))

\* generateContainerConfig throws exactly when validateImageName fails
generateContainerConfigThrows(image) == ~validateImageName(image)

\* ------------------------------------------------------ stripe-connector.ts
\* Math.round(num / den): floor(num/den + 1/2)
MathRound(num, den) == (2 * num + den) \div (2 * den)

RateCentsPerMinute == 10

getComputeRate == RateCentsPerMinute

\* durationMs / 1000 / 60
MsPerMinute == 1000 * 60

\* The code computes in doubles.  (durationMs / 1000 / 60) * 0.10 * 100 is an
\* exact half of a cent only when durationMs is an odd multiple of 3000; for the
\* durations from -26999 to 620999 ms the double falls below the half, so that
\* Math.round gives one cent less than the exact value does, at these three
RoundsBelowHalf == { -3000, 21000, 87000 }

\* calculateJobCost(startTime, endTime), in cents: no max(0, ...) on the duration
calculateJobCost(startTime, endTime) ==
    LET durationMs == endTime - startTime
        exact == MathRound(durationMs * getComputeRate, MsPerMinute)
    IN IF durationMs \in RoundsBelowHalf THEN exact - 1 ELSE exact

\* calculateProviderEarnings with Math.floor for Math.round
calculateProviderEarningsFloor(jobCost) == (jobCost * 8) \div 10

\* calculateProviderEarnings(jobCost), in cents: Math.round(jobCost * 0.8 * 100) / 100
\* (jobCost * 0.8 is never a half of a cent, and the doubles round as the exact
\* values do)
calculateProviderEarnings(jobCost) == MathRound(jobCost * 8, 10)

\* ------------------------------------------------------------------ state
VARIABLES
    jobs,             \* the jobs table: a sequence of rows, the job id is the index
    providers,        \* the providers table: provider id -> status, "absent" when no row
    payments,         \* the payments table, in insertion order
    stripeConfigured, \* !!process.env.STRIPE_SECRET_KEY
    clock,            \* Date.now()
    reqs,             \* the handlers in flight: their position and locals
    ops,              \* handlers started so far
    response,         \* the HTTP response the last step sent, NoResponse when it sent none
    call,             \* the last call of a function of the connector or the
                      \* docker manager on its own: its name, arguments and result
    isRunning,        \* JobRunner.isRunning
    pollingInterval,  \* JobRunner.pollingInterval: the Timeout of setInterval, or NULL
    timers,           \* the intervals of the event loop that clearInterval has not cleared
    queue,            \* scheduling/job-queue.ts: JobQueue.queue, the in-memory array
    log               \* the calls made on the in-memory JobQueue, with their results

runnerVars == <<isRunning, pollingInterval, timers>>
queueVars == <<queue, log>>

vars == <<jobs, providers, payments, stripeConfigured, clock, reqs, ops, response, call,
          runnerVars, queueVars>>

JobIds == 1 .. MaxJobs

Idle ==
    [kind |-> "idle", pc |-> "idle", jobId |-> NULL, providerId |-> NULL,
     status |-> "", userId |-> "", cost |-> 0, avail |-> <<>>, served |-> {}]

NoResponse == [op |-> "none", code |-> 0, jobId |-> NULL, providerId |-> NULL]

Response(op, code, j, p) == [op |-> op, code |-> code, jobId |-> j, providerId |-> p]

NoCall == [fn |-> "none", args |-> <<>>, result |-> 0]

Call(fn, args, result) == [fn |-> fn, args |-> args, result |-> result]


Init ==
    /\ jobs = <<>>
    /\ providers = [p \in Providers |-> "absent"]
    /\ payments = <<>>
    /\ stripeConfigured = FALSE
    /\ clock = 0
    /\ reqs = [s \in Slots |-> Idle]
    /\ ops = 0
    /\ response = NoResponse
    /\ call = NoCall
    /\ isRunning = FALSE
    /\ pollingInterval = NULL
    /\ timers = {}
    /\ queue = <<>>
    /\ log = <<>>

\* a handler starts in the lowest free slot
Free(s) ==
    /\ ops < MaxOps
    /\ reqs[s] = Idle
    /\ \A t \in Slots : t < s => reqs[t] # Idle

\* a new provider id (a caller's or a uuid) is the lowest id without a row: the ids
\* are opaque, so this leaves out only renamings
Fresh(providerId) ==
    /\ providers[providerId] = "absent"
    /\ \A q \in Providers : q < providerId => providers[q] # "absent"

At(s, kind, pc) == reqs[s].kind = kind /\ reqs[s].pc = pc

\* ------------------------------------------------------------- job-queue
\* JobQueue.createJob: INSERT with status queued, cost "0.00"
createJob(userId, dockerImage) ==
    Append(jobs, [userId |-> userId, providerId |-> NULL, dockerImage |-> dockerImage,
                  status |-> "queued", createdAt |-> clock, startedAt |-> NULL,
                  finishedAt |-> NULL, cost |-> 0])

\* getNextJob without its ORDER BY: any queued row
getNextJobUnordered == { j \in DOMAIN jobs : jobs[j].status = "queued" }

\* JobQueue.getNextJob: WHERE status = 'queued' ORDER BY created_at LIMIT 1
\* (rows with the same created_at come in either order)
getNextJob ==
    { j \in DOMAIN jobs :
        /\ jobs[j].status = "queued"
        /\ \A k \in DOMAIN jobs :
              jobs[k].status = "queued" => jobs[j].createdAt <= jobs[k].createdAt }

\* countQueuedJobs counting the rows with status assigned
countAssignedJobs == Cardinality({ j \in DOMAIN jobs : jobs[j].status = "assigned" })

\* JobQueue.countQueuedJobs
countQueuedJobs == Cardinality({ j \in DOMAIN jobs : jobs[j].status = "queued" })

\* assignJob without startedAt: new Date()
assignJobNoStartedAt(jobId, providerId) ==
    [jobs EXCEPT ![jobId].providerId = providerId,
                 ![jobId].status = "assigned"]

\* JobQueue.assignJob: UPDATE jobs SET provider_id, status, started_at WHERE id
assignJob(jobId, providerId) ==
    [jobs EXCEPT ![jobId].providerId = providerId,
                 ![jobId].status = "assigned",
                 ![jobId].startedAt = clock]

\* markJobRunning writing the status only
markJobRunningStatusOnly(jobId) ==
    [jobs EXCEPT ![jobId].status = "running"]

\* JobQueue.markJobRunning: UPDATE jobs SET status, started_at WHERE id
markJobRunning(jobId) ==
    [jobs EXCEPT ![jobId].status = "running", ![jobId].startedAt = clock]

\* JobQueue.markJobCompleted: UPDATE jobs SET status, finished_at, cost WHERE id
markJobCompleted(jobId, cost) ==
    [jobs EXCEPT ![jobId].status = "completed",
                 ![jobId].finishedAt = clock,
                 ![jobId].cost = cost]

\* JobQueue.markJobFailed: UPDATE jobs SET status, finished_at, cost WHERE id
markJobFailed(jobId, cost) ==
    [jobs EXCEPT ![jobId].status = "failed",
                 ![jobId].finishedAt = clock,
                 ![jobId].cost = cost]

\* UPDATE providers SET status WHERE id: no row, no change
updateProviderStatus(providerId, status) ==
    IF providers[providerId] = "absent"
    THEN providers
    ELSE [providers EXCEPT ![providerId] = status]

\* --------------------------------------------------- index.ts: POST /jobs
\* POST /jobs without its validateImageName check: every image is stored
PostJobsUnvalidated(userId, dockerImage) ==
    /\ Len(jobs) < MaxJobs
    /\ jobs' = createJob(userId, dockerImage)
    /\ response' = Response("create", 201, Len(jobs) + 1, NULL)
    /\ UNCHANGED <<providers, payments, stripeConfigured, clock, reqs, ops, call, runnerVars, queueVars>>

\* validates the image, then JobQueue.createJob: 201, or 400 and no row
PostJobs(userId, dockerImage) ==
    /\ Len(jobs) < MaxJobs
    /\ IF validateImageName(dockerImage)
       THEN /\ jobs' = createJob(userId, dockerImage)
            /\ response' = Response("create", 201, Len(jobs) + 1, NULL)
       ELSE /\ jobs' = jobs
            /\ response' = Response("create", 400, NULL, NULL)
    /\ UNCHANGED <<providers, payments, stripeConfigured, clock, reqs, ops, call, runnerVars, queueVars>>

\* JobQueue.createJob called on the exported job store itself, as by any writer of
\* the shared jobs table: nothing checks the image
CreateJob(userId, dockerImage) ==
    /\ Len(jobs) < MaxJobs
    /\ jobs' = createJob(userId, dockerImage)
    /\ response' = NoResponse
    /\ UNCHANGED <<providers, payments, stripeConfigured, clock, reqs, ops, call, runnerVars, queueVars>>

\* ------------------------------------ index.ts: POST /providers/register
\* with a providerId: SELECT the provider row, then UPDATE or INSERT
RegisterSelect(s, providerId) ==
    /\ Free(s)
    /\ providers[providerId] # "absent" \/ Fresh(providerId)
    /\ ops' = ops + 1
    /\ reqs' = [reqs EXCEPT ![s] =
                 [Idle EXCEPT !.kind = "register",
                              !.pc = IF providers[providerId] # "absent"
                                     THEN "update" ELSE "insert",
                              !.providerId = providerId]]
    /\ response' = NoResponse
    /\ UNCHANGED <<jobs, providers, payments, stripeConfigured, clock, call, runnerVars, queueVars>>

\* the UPDATE of a re-registration writing gpuSpecs only
RegisterUpdateKeepsStatus(s) ==
    /\ At(s, "register", "update")
    /\ providers' = providers
    /\ reqs' = [reqs EXCEPT ![s] = Idle]
    /\ response' = Response("register", 200, NULL, reqs[s].providerId)
    /\ UNCHANGED <<jobs, payments, stripeConfigured, clock, ops, call, runnerVars, queueVars>>

\* UPDATE providers SET status = 'online', gpuSpecs WHERE id
RegisterUpdate(s) ==
    /\ At(s, "register", "update")
    /\ providers' = updateProviderStatus(reqs[s].providerId, "online")
    /\ reqs' = [reqs EXCEPT ![s] = Idle]
    /\ response' = Response("register", 200, NULL, reqs[s].providerId)
    /\ UNCHANGED <<jobs, payments, stripeConfigured, clock, ops, call, runnerVars, queueVars>>

\* INSERT INTO providers: a row with this primary key by now makes it throw (500)
RegisterInsert(s) ==
    /\ At(s, "register", "insert")
    /\ IF providers[reqs[s].providerId] = "absent"
       THEN /\ providers' = [providers EXCEPT ![reqs[s].providerId] = "online"]
            /\ response' = Response("register", 200, NULL, reqs[s].providerId)
       ELSE /\ providers' = providers
            /\ response' = Response("register", 500, NULL, reqs[s].providerId)
    /\ reqs' = [reqs EXCEPT ![s] = Idle]
    /\ UNCHANGED <<jobs, payments, stripeConfigured, clock, ops, call, runnerVars, queueVars>>

\* without a providerId: INSERT under a fresh uuid
RegisterNew(providerId) ==
    /\ Fresh(providerId)
    /\ providers' = [providers EXCEPT ![providerId] = "online"]
    /\ response' = Response("register", 200, NULL, providerId)
    /\ UNCHANGED <<jobs, payments, stripeConfigured, clock, reqs, ops, call, runnerVars, queueVars>>

\* ------------------------------------------- index.ts: POST /jobs/assign
\* SELECT the provider row: 400 unless it exists and is online
AssignCheckProvider(s, providerId) ==
    /\ Free(s)
    /\ ops' = ops + 1
    /\ IF providers[providerId] # "online"
       THEN /\ reqs' = reqs
            /\ response' = Response("assign", 400, NULL, providerId)
       ELSE /\ reqs' = [reqs EXCEPT ![s] =
                         [Idle EXCEPT !.kind = "assign", !.pc = "getNextJob",
                                      !.providerId = providerId]]
            /\ response' = NoResponse
    /\ UNCHANGED <<jobs, providers, payments, stripeConfigured, clock, call, runnerVars, queueVars>>

\* jobQueue.getNextJob(): none gives 200 {noJob: true}
AssignGetNextJob(s) ==
    /\ At(s, "assign", "getNextJob")
    /\ IF getNextJob = {}
       THEN /\ reqs' = [reqs EXCEPT ![s] = Idle]
            /\ response' = Response("assign", 200, NULL, reqs[s].providerId)
       ELSE /\ \E j \in getNextJob :
                 reqs' = [reqs EXCEPT ![s].pc = "assignJob", ![s].jobId = j]
            /\ response' = NoResponse
    /\ UNCHANGED <<jobs, providers, payments, stripeConfigured, clock, ops, call, runnerVars, queueVars>>

\* jobQueue.assignJob(nextJob.id, providerId), then generateContainerConfig:
\* when it throws the handler answers 500 from its catch block
AssignAssignJob(s) ==
    /\ At(s, "assign", "assignJob")
    /\ jobs' = assignJob(reqs[s].jobId, reqs[s].providerId)
    /\ IF generateContainerConfigThrows(jobs[reqs[s].jobId].dockerImage)
       THEN /\ reqs' = [reqs EXCEPT ![s] = Idle]
            /\ response' = Response("assign", 500, reqs[s].jobId, reqs[s].providerId)
       ELSE /\ reqs' = [reqs EXCEPT ![s].pc = "busy"]
            /\ response' = NoResponse
    /\ UNCHANGED <<providers, payments, stripeConfigured, clock, ops, call, runnerVars, queueVars>>

\* UPDATE providers SET status = 'busy', then 200 {job, containerConfig}
AssignSetBusy(s) ==
    /\ At(s, "assign", "busy")
    /\ providers' = updateProviderStatus(reqs[s].providerId, "busy")
    /\ reqs' = [reqs EXCEPT ![s] = Idle]
    /\ response' = Response("assign", 200, reqs[s].jobId, reqs[s].providerId)
    /\ UNCHANGED <<jobs, payments, stripeConfigured, clock, ops, call, runnerVars, queueVars>>

\* ------------------------------------------- index.ts: POST /jobs/report
\* the cost of a completed report, computed right after getJob returns
completedCost(job, executionTime) ==
    IF executionTime # <<>> /\ executionTime[1] # 0
    THEN MathRound(executionTime[1] * getComputeRate, 1)
    ELSE IF job.startedAt # NULL
         THEN MathRound(calculateJobCost(job.startedAt, clock), 1)
         ELSE 0

\* the partial cost of a failed report without the 50% discount
failedCostFull(job) ==
    IF job.startedAt # NULL
    THEN calculateJobCost(job.startedAt, clock)
    ELSE 0

\* the partial cost of a failed report: 50% of the wall-clock cost
failedCost(job) ==
    IF job.startedAt # NULL
    THEN MathRound(calculateJobCost(job.startedAt, clock), 2)
    ELSE 0

\* if (job.providerId !== providerId): 403
providerMismatchNullPasses(job, providerId) ==
    job.providerId # NULL /\ job.providerId # providerId

providerMismatch(job, providerId) == job.providerId # providerId

\* jobQueue.getJob(jobId): 404 without a row, 403 when job.providerId is not the
\* caller's, 400 on an unknown status; the cost is computed before the next await
ReportGetJob(s, jobId, providerId, status, executionTime) ==
    /\ Free(s)
    /\ ops' = ops + 1
    /\ IF jobId \notin DOMAIN jobs
       THEN /\ reqs' = reqs
            /\ response' = Response("report", 404, jobId, providerId)
       ELSE IF providerMismatch(jobs[jobId], providerId)
       THEN /\ reqs' = reqs
            /\ response' = Response("report", 403, jobId, providerId)
       ELSE IF status \notin {"running", "completed", "failed"}
       THEN /\ reqs' = reqs
            /\ response' = Response("report", 400, jobId, providerId)
       ELSE /\ reqs' = [reqs EXCEPT ![s] =
                         [Idle EXCEPT !.kind = "report", !.pc = status,
                                      !.jobId = jobId, !.providerId = providerId,
                                      !.status = status,
                                      !.userId = jobs[jobId].userId,
                                      !.cost = CASE status = "completed" ->
                                                      completedCost(jobs[jobId], executionTime)
                                                 [] status = "failed" ->
                                                      failedCost(jobs[jobId])
                                                 [] OTHER -> 0]]
            /\ response' = NoResponse
    /\ UNCHANGED <<jobs, providers, payments, stripeConfigured, clock, call, runnerVars, queueVars>>

\* case 'running': jobQueue.markJobRunning(jobId), then 200
ReportMarkRunning(s) ==
    /\ At(s, "report", "running")
    /\ jobs' = markJobRunning(reqs[s].jobId)
    /\ reqs' = [reqs EXCEPT ![s] = Idle]
    /\ response' = Response("report", 200, reqs[s].jobId, reqs[s].providerId)
    /\ UNCHANGED <<providers, payments, stripeConfigured, clock, ops, call, runnerVars, queueVars>>

\* case 'completed': jobQueue.markJobCompleted(jobId, cost)
ReportMarkCompleted(s) ==
    /\ At(s, "report", "completed")
    /\ jobs' = markJobCompleted(reqs[s].jobId, reqs[s].cost)
    /\ reqs' = [reqs EXCEPT ![s].pc = IF reqs[s].cost > 0 THEN "charge" ELSE "online"]
    /\ response' = NoResponse
    /\ UNCHANGED <<providers, payments, stripeConfigured, clock, ops, call, runnerVars, queueVars>>

\* case 'failed': jobQueue.markJobFailed(jobId, partialCost)
ReportMarkFailed(s) ==
    /\ At(s, "report", "failed")
    /\ jobs' = markJobFailed(reqs[s].jobId, reqs[s].cost)
    /\ reqs' = [reqs EXCEPT ![s].pc = IF reqs[s].cost > 0 THEN "charge" ELSE "online"]
    /\ response' = NoResponse
    /\ UNCHANGED <<providers, payments, stripeConfigured, clock, ops, call, runnerVars, queueVars>>

\* the payment row of real mode written as succeeded once the intent is created
paymentRowSucceeded(configured, jobId, amount, ok) ==
    [jobId |-> jobId, amount |-> amount,
     status |-> IF ok THEN "succeeded" ELSE "failed"]

\* the row chargeForJob (configured) or simulatePayment (not configured) inserts;
\* its id is a fresh uuid and its createdAt the time, in either mode
paymentRow(configured, jobId, amount, ok) ==
    [jobId |-> jobId, amount |-> amount,
     status |-> IF configured
                THEN (IF ok THEN "pending" ELSE "failed")
                ELSE (IF ok THEN "succeeded" ELSE "failed")]

\* the messages of the errors stripe.paymentIntents.create throws, and the text
\* the catch block uses for a thrown value that is not an Error
StripeErrors == {"Your card was declined.", "Unknown error occurred"}

\* the PaymentResult returned: {success, paymentId, error?, amount}; paymentId is
\* a fresh uuid in either mode, error is "" when the result has none
paymentResult(configured, amount, ok, message) ==
    [success |-> ok,
     error |-> IF ok THEN ""
               ELSE IF configured THEN message ELSE "Simulated payment failure",
     amount |-> amount]

\* chargeForJob as an upsert: a job that has a payment row gets it overwritten
chargeForJobUpsert(jobId, amount, ok) ==
    LET row == paymentRow(stripeConfigured, jobId, amount, ok)
    IN IF \E i \in DOMAIN payments : payments[i].jobId = jobId
       THEN [i \in DOMAIN payments |->
                IF payments[i].jobId = jobId THEN row ELSE payments[i]]
       ELSE Append(payments, row)

\* StripeConnector.chargeForJob: one INSERT INTO payments, whatever the outcome.
\* With a Stripe key the row is pending, or failed when paymentIntents.create
\* throws; without one simulatePayment draws succeeded or failed
chargeForJob(jobId, amount, ok) ==
    Append(payments, paymentRow(stripeConfigured, jobId, amount, ok))

\* if (cost > 0) await stripeConnector.chargeForJob(jobId, job.userId, cost, ...)
ReportCharge(s) ==
    /\ At(s, "report", "charge")
    /\ \E ok \in BOOLEAN : payments' = chargeForJob(reqs[s].jobId, reqs[s].cost, ok)
    /\ reqs' = [reqs EXCEPT ![s].pc = "online"]
    /\ response' = NoResponse
    /\ UNCHANGED <<jobs, providers, stripeConfigured, clock, ops, call, runnerVars, queueVars>>

\* UPDATE providers SET status = 'online' WHERE id = providerId, then 200
ReportSetOnline(s) ==
    /\ At(s, "report", "online")
    /\ providers' = updateProviderStatus(reqs[s].providerId, "online")
    /\ reqs' = [reqs EXCEPT ![s] = Idle]
    /\ response' = Response("report", 200, reqs[s].jobId, reqs[s].providerId)
    /\ UNCHANGED <<jobs, payments, stripeConfigured, clock, ops, call, runnerVars, queueVars>>

\* ------------------------------------------ job-runner.ts: processQueue
\* the rows of a SELECT without ORDER BY, in any order
Orders(S) ==
    { f \in [1 .. Cardinality(S) -> S] :
        \A a, b \in 1 .. Cardinality(S) : a # b => f[a] # f[b] }

\* findAvailableProviders without its WHERE: every provider row
findAvailableProvidersAnyStatus == { p \in Providers : providers[p] # "absent" }

\* JobRunner.findAvailableProviders: WHERE status = 'online'
findAvailableProviders == { p \in Providers : providers[p] = "online" }

\* countQueuedJobs(): a tick that finds no queued job returns
TickCount(s) ==
    /\ Free(s)
    /\ ops' = ops + 1
    /\ reqs' = IF countQueuedJobs = 0
               THEN reqs
               ELSE [reqs EXCEPT ![s] = [Idle EXCEPT !.kind = "tick", !.pc = "find"]]
    /\ response' = NoResponse
    /\ UNCHANGED <<jobs, providers, payments, stripeConfigured, clock, call, runnerVars, queueVars>>

\* findAvailableProviders(): a tick that finds no online provider returns
TickFind(s) ==
    /\ At(s, "tick", "find")
    /\ IF findAvailableProviders = {}
       THEN reqs' = [reqs EXCEPT ![s] = Idle]
       ELSE \E f \in Orders(findAvailableProviders) :
                reqs' = [reqs EXCEPT ![s].pc = "getNextJob", ![s].avail = f]
    /\ response' = NoResponse
    /\ UNCHANGED <<jobs, providers, payments, stripeConfigured, clock, ops, call, runnerVars, queueVars>>

\* for (const provider of availableProviders): getNextJob(), break when none
TickGetNextJob(s) ==
    /\ At(s, "tick", "getNextJob")
    /\ IF getNextJob = {}
       THEN reqs' = [reqs EXCEPT ![s] = Idle]
       ELSE \E j \in getNextJob :
                reqs' = [reqs EXCEPT ![s].pc = "assignJob", ![s].jobId = j,
                                     ![s].providerId = Head(reqs[s].avail)]
    /\ response' = NoResponse
    /\ UNCHANGED <<jobs, providers, payments, stripeConfigured, clock, ops, call, runnerVars, queueVars>>

\* jobQueue.assignJob(nextJob.id, provider.id); served records the providers this
\* run of the loop has assigned a job to
TickAssignJob(s) ==
    /\ At(s, "tick", "assignJob")
    /\ jobs' = assignJob(reqs[s].jobId, reqs[s].providerId)
    /\ reqs' = [reqs EXCEPT ![s].pc = "busy",
                            ![s].served = reqs[s].served \cup {reqs[s].providerId}]
    /\ response' = NoResponse
    /\ UNCHANGED <<providers, payments, stripeConfigured, clock, ops, call, runnerVars, queueVars>>

\* the loop of processQueue staying on the provider it has just served
TickSetBusyStays(s) ==
    /\ At(s, "tick", "busy")
    /\ providers' = updateProviderStatus(reqs[s].providerId, "busy")
    /\ reqs' = [reqs EXCEPT ![s].pc = "getNextJob", ![s].jobId = NULL,
                            ![s].providerId = NULL]
    /\ response' = NoResponse
    /\ UNCHANGED <<jobs, payments, stripeConfigured, clock, ops, call, runnerVars, queueVars>>

\* updateProviderStatus(provider.id, 'busy'), then the next provider of the list
TickSetBusy(s) ==
    /\ At(s, "tick", "busy")
    /\ providers' = updateProviderStatus(reqs[s].providerId, "busy")
    /\ reqs' = IF Len(reqs[s].avail) = 1
               THEN [reqs EXCEPT ![s] = Idle]
               ELSE [reqs EXCEPT ![s].pc = "getNextJob", ![s].jobId = NULL,
                                 ![s].providerId = NULL,
                                 ![s].avail = Tail(reqs[s].avail)]
    /\ response' = NoResponse
    /\ UNCHANGED <<jobs, payments, stripeConfigured, clock, ops, call, runnerVars, queueVars>>

\* ------------------------------------------------------------------ time
Advance ==
    /\ clock < MaxClock * ClockStep
    /\ clock' = clock + ClockStep
    /\ response' = NoResponse
    /\ UNCHANGED <<jobs, providers, payments, stripeConfigured, reqs, ops, call, runnerVars, queueVars>>

Next ==
    \/ \E u \in Users, i \in Images : PostJobs(u, i)
    \/ \E s \in Slots, p \in Providers : RegisterSelect(s, p)
    \/ \E s \in Slots : RegisterUpdate(s)
    \/ \E s \in Slots : RegisterInsert(s)
    \/ \E p \in Providers : RegisterNew(p)
    \/ \E s \in Slots, p \in Providers : AssignCheckProvider(s, p)
    \/ \E s \in Slots : AssignGetNextJob(s)
    \/ \E s \in Slots : AssignAssignJob(s)
    \/ \E s \in Slots : AssignSetBusy(s)
    \/ \E s \in Slots, j \in JobIds, p \in Providers, st \in ReportStatuses,
          et \in ExecTimes : ReportGetJob(s, j, p, st, et)
    \/ \E s \in Slots : ReportMarkRunning(s)
    \/ \E s \in Slots : ReportMarkCompleted(s)
    \/ \E s \in Slots : ReportMarkFailed(s)
    \/ \E s \in Slots : ReportCharge(s)
    \/ \E s \in Slots : ReportSetOnline(s)
    \/ \E s \in Slots : TickCount(s)
    \/ \E s \in Slots : TickFind(s)
    \/ \E s \in Slots : TickGetNextJob(s)
    \/ \E s \in Slots : TickAssignJob(s)
    \/ \E s \in Slots : TickSetBusy(s)
    \/ Advance

\* the orchestrator as index.ts runs it: jobs come in through POST /jobs only
Spec == Init /\ [][Next]_vars

\* the job store written to directly, with the claims of pulls and ticks
NextStore ==
    \/ \E u \in Users, i \in Images : CreateJob(u, i)
    \/ \E p \in Providers : RegisterNew(p)
    \/ \E s \in Slots, p \in Providers : AssignCheckProvider(s, p)
    \/ \E s \in Slots : AssignGetNextJob(s)
    \/ \E s \in Slots : AssignAssignJob(s)
    \/ \E s \in Slots : AssignSetBusy(s)
    \/ \E s \in Slots : TickCount(s)
    \/ \E s \in Slots : TickFind(s)
    \/ \E s \in Slots : TickGetNextJob(s)
    \/ \E s \in Slots : TickAssignJob(s)
    \/ \E s \in Slots : TickSetBusy(s)

StoreSpec == Init /\ [][NextStore]_vars

\* the orchestrator started with or without STRIPE_SECRET_KEY
InitCharge ==
    /\ jobs = <<>>
    /\ providers = [p \in Providers |-> "absent"]
    /\ payments = <<>>
    /\ stripeConfigured \in BOOLEAN
    /\ clock = 0
    /\ reqs = [s \in Slots |-> Idle]
    /\ ops = 0
    /\ response = NoResponse
    /\ call = NoCall
    /\ isRunning = FALSE
    /\ pollingInterval = NULL
    /\ timers = {}
    /\ queue = <<>>
    /\ log = <<>>

\* the amounts chargeForJob is called with, in cents
Amounts == 0 .. MaxAmount

\* StripeConnector.chargeForJob(jobId, userId, amount, description) called on the
\* exported connector: ok is the outcome of stripe.paymentIntents.create, or of
\* the draw of simulatePayment; the PaymentResult returned has success = ok, shown
\* as code 1 (true) or 0 (false) of the response
Charge(jobId, amount, ok) ==
    /\ ops < MaxOps
    /\ ops' = ops + 1
    /\ payments' = chargeForJob(jobId, amount, ok)
    /\ response' = Response("charge", IF ok THEN 1 ELSE 0, jobId, NULL)
    /\ UNCHANGED <<jobs, providers, stripeConfigured, clock, reqs, call, runnerVars, queueVars>>

NextCharge ==
    \E j \in JobIds, a \in Amounts, ok \in BOOLEAN : Charge(j, a, ok)

\* the settlement connector on its own, in real mode and in simulation mode
ChargeSpec == InitCharge /\ [][NextCharge]_vars

\* ------------------------------------------------- job-queue: listings
\* the users whose jobs are listed
ListUsers == {"u1", "u2"}

\* the limit of a listing
Limits == 0 .. MaxLimit

\* the status filter of a listing: "" when there is none (status is falsy)
StatusFilters == {"", "queued", "assigned", "running", "completed", "failed"}

\* the rows S in an order ORDER BY created_at DESC allows
NewestFirst(S) ==
    { f \in Orders(S) :
        \A a, b \in 1 .. Cardinality(S) :
            a < b => jobs[f[a]].createdAt >= jobs[f[b]].createdAt }

\* listJobsForUser without the status condition of its WHERE
listJobsForUserAnyStatus(userId, limit, status) ==
    LET rows == { j \in DOMAIN jobs : jobs[j].userId = userId }
    IN { SubSeq(f, 1, IF limit < Len(f) THEN limit ELSE Len(f)) : f \in NewestFirst(rows) }

\* JobQueue.listJobsForUser: WHERE user_id = userId [AND status = status]
\* ORDER BY created_at DESC LIMIT limit; the results the query may give
listJobsForUser(userId, limit, status) ==
    LET rows == { j \in DOMAIN jobs :
                    /\ jobs[j].userId = userId
                    /\ status # "" => jobs[j].status = status }
    IN { SubSeq(f, 1, IF limit < Len(f) THEN limit ELSE Len(f)) : f \in NewestFirst(rows) }

\* the jobs of two users, created through POST /jobs, pulled, and reported
\* running or completed without an executionTime
NextList ==
    \/ \E u \in ListUsers, i \in Images : PostJobs(u, i)
    \/ \E p \in Providers : RegisterNew(p)
    \/ \E s \in Slots, p \in Providers : AssignCheckProvider(s, p)
    \/ \E s \in Slots : AssignGetNextJob(s)
    \/ \E s \in Slots : AssignAssignJob(s)
    \/ \E s \in Slots : AssignSetBusy(s)
    \/ \E s \in Slots, j \in JobIds, p \in Providers, st \in {"running", "completed"} :
          ReportGetJob(s, j, p, st, <<>>)
    \/ \E s \in Slots : ReportMarkRunning(s)
    \/ \E s \in Slots : ReportMarkCompleted(s)
    \/ \E s \in Slots : ReportCharge(s)
    \/ \E s \in Slots : ReportSetOnline(s)
    \/ Advance

ListSpec == Init /\ [][NextList]_vars

\* ------------------------------------- the functions called on their own
\* the times calculateJobCost is called with: Date values on a grid of 3 seconds,
\* the durations at which the cost is a whole or a half cent
TimeUnit == 3 * 1000
StartTimes == { k * TimeUnit : k \in 0 .. MaxStartUnits }
EndTimes == { k * TimeUnit : k \in 0 .. MaxEndUnits }

\* the job costs calculateProviderEarnings is called with, in cents
Costs == 0 .. MaxCost

\* the image names validateImageName is called with: every string of up to
\* MaxImageLen characters of ImageAlphabet, and two named ones
ImageAlphabet == {"a", "A", "1", "_", "-", ".", ":", "/"}
PytorchLatest ==
    <<"p", "y", "t", "o", "r", "c", "h", "/", "p", "y", "t", "o", "r", "c", "h",
      ":", "l", "a", "t", "e", "s", "t">>
UpperTag == <<"U", "P", "P", "E", "R", ":", "t", "a", "g">>
ImageNames ==
    UNION { [1 .. n -> ImageAlphabet] : n \in 0 .. MaxImageLen }
        \cup { PytorchLatest, UpperTag }

CalculateJobCost(startTime, endTime) ==
    /\ call = NoCall
    /\ call' = Call("calculateJobCost", <<startTime, endTime>>,
                    calculateJobCost(startTime, endTime))
    /\ response' = NoResponse
    /\ UNCHANGED <<jobs, providers, payments, stripeConfigured, clock, reqs, ops, runnerVars, queueVars>>

CalculateProviderEarnings(jobCost) ==
    /\ call = NoCall
    /\ call' = Call("calculateProviderEarnings", <<jobCost>>,
                    calculateProviderEarnings(jobCost))
    /\ response' = NoResponse
    /\ UNCHANGED <<jobs, providers, payments, stripeConfigured, clock, reqs, ops, runnerVars, queueVars>>

ValidateImageName(imageName) ==
    /\ call = NoCall
    /\ call' = Call("validateImageName", <<imageName>>, validateImageName(imageName))
    /\ response' = NoResponse
    /\ UNCHANGED <<jobs, providers, payments, stripeConfigured, clock, reqs, ops, runnerVars, queueVars>>

\* chargeForJob called with the same arguments and the same outcome in real mode
\* and in simulation mode: what a caller gets back and finds in the payments
\* table, in each
ChargeInBothModes(jobId, amount, ok, message) ==
    /\ call = NoCall
    /\ call' = Call("chargeForJob", <<jobId, amount, ok, message>>,
                    [real |-> [result |-> paymentResult(TRUE, amount, ok, message),
                               row |-> paymentRow(TRUE, jobId, amount, ok)],
                     simulated |-> [result |-> paymentResult(FALSE, amount, ok, message),
                                    row |-> paymentRow(FALSE, jobId, amount, ok)]])
    /\ response' = NoResponse
    /\ UNCHANGED <<jobs, providers, payments, stripeConfigured, clock, reqs, ops, runnerVars, queueVars>>

NextPure ==
    \/ \E st \in StartTimes, en \in EndTimes : CalculateJobCost(st, en)
    \/ \E c \in Costs : CalculateProviderEarnings(c)
    \/ \E i \in ImageNames : ValidateImageName(i)
    \/ \E j \in JobIds, a \in Amounts, ok \in BOOLEAN, m \in StripeErrors :
          ChargeInBothModes(j, a, ok, m)

\* the cost functions of the connector and the validator of the docker manager,
\* each called with every argument of its bounded set; the functions keep no
\* state, so a behaviour is one call
PureSpec == Init /\ [][NextPure]_vars

\* ------------------------------------ job-runner.ts: start, stop, timer
\* the Timeout objects setInterval can return
TimerIds == 1 .. MaxTimers

\* a slot for a run of processQueue: the lowest one without a handler
FreeSlot(s) ==
    /\ reqs[s] = Idle
    /\ \A t \in Slots : t < s => reqs[t] # Idle

\* this.processQueue() called, up to the result of its countQueuedJobs(): the
\* run returns when nothing is queued, and goes on to findAvailableProviders
processQueue(s) ==
    /\ FreeSlot(s)
    /\ reqs' = IF countQueuedJobs = 0
               THEN reqs
               ELSE [reqs EXCEPT ![s] = [Idle EXCEPT !.kind = "tick", !.pc = "find"]]

\* start() without its isRunning check
StartUnguarded(s) ==
    /\ isRunning' = TRUE
    /\ processQueue(s)
    /\ \E t \in TimerIds :
         /\ t \notin timers
         /\ \A u \in TimerIds : u < t => u \in timers
         /\ timers' = timers \cup {t}
         /\ pollingInterval' = t
    /\ response' = NoResponse
    /\ UNCHANGED <<jobs, providers, payments, stripeConfigured, clock, ops, call, queueVars>>

\* JobRunner.start(): returns when isRunning; else sets isRunning, calls
\* processQueue() once and keeps the Timeout of setInterval in pollingInterval
Start(s) ==
    /\ IF isRunning
       THEN UNCHANGED <<isRunning, pollingInterval, timers, reqs>>
       ELSE /\ isRunning' = TRUE
            /\ processQueue(s)
            /\ \E t \in TimerIds :
                 /\ t \notin timers
                 /\ \A u \in TimerIds : u < t => u \in timers
                 /\ timers' = timers \cup {t}
                 /\ pollingInterval' = t
    /\ response' = NoResponse
    /\ UNCHANGED <<jobs, providers, payments, stripeConfigured, clock, ops, call, queueVars>>

\* JobRunner.stop(): returns when not running; else clearInterval(pollingInterval)
\* and resets both fields.  Nothing touches a processQueue run in flight
Stop ==
    /\ IF ~isRunning \/ pollingInterval = NULL
       THEN UNCHANGED <<isRunning, pollingInterval, timers>>
       ELSE /\ timers' = timers \ {pollingInterval}
            /\ pollingInterval' = NULL
            /\ isRunning' = FALSE
    /\ response' = NoResponse
    /\ UNCHANGED <<jobs, providers, payments, stripeConfigured, clock, reqs, ops, call, queueVars>>

\* the callback of an interval that has not been cleared: () => this.processQueue()
TimerFires(s) ==
    /\ timers # {}
    /\ processQueue(s)
    /\ response' = NoResponse
    /\ UNCHANGED <<jobs, providers, payments, stripeConfigured, clock, ops, call,
                   runnerVars, queueVars>>

\* index.ts, the SIGTERM and SIGINT handlers: jobRunner.stop(); process.exit(0).
\* The process ends with its handlers in flight; the tables stay as they are, and
\* the memory is that of the next orchestrator process before it calls start()
Shutdown ==
    /\ isRunning' = FALSE
    /\ pollingInterval' = NULL
    /\ timers' = {}
    /\ reqs' = [s \in Slots |-> Idle]
    /\ response' = NoResponse
    /\ UNCHANGED <<jobs, providers, payments, stripeConfigured, clock, ops, call, queueVars>>

NextRunner ==
    \/ \E u \in Users, i \in Images : PostJobs(u, i)
    \/ \E p \in Providers : RegisterNew(p)
    \/ \E s \in Slots : Start(s)
    \/ Stop
    \/ \E s \in Slots : TimerFires(s)
    \/ \E s \in Slots : TickFind(s)
    \/ \E s \in Slots : TickGetNextJob(s)
    \/ \E s \in Slots : TickAssignJob(s)
    \/ \E s \in Slots : TickSetBusy(s)
    \/ Shutdown

\* the scheduler started, stopped and shut down while jobs and providers arrive
RunnerSpec == Init /\ [][NextRunner]_vars

\* ------------------------------- scheduling/job-queue.ts: in-memory queue
\* JobQueue.enqueue: this.queue.push(job)
enqueue(job) == Append(queue, job)

\* dequeue taking the job enqueued last: this.queue.pop()
dequeuePop ==
    IF queue = <<>>
    THEN [result |-> NULL, queue |-> queue]
    ELSE [result |-> queue[Len(queue)], queue |-> SubSeq(queue, 1, Len(queue) - 1)]

\* JobQueue.dequeue: this.queue.shift(), undefined on an empty array, which it
\* leaves as it is
dequeue ==
    IF queue = <<>>
    THEN [result |-> NULL, queue |-> queue]
    ELSE [result |-> Head(queue), queue |-> Tail(queue)]

\* JobQueue.size: this.queue.length
size == Len(queue)

\* the calls on one JobQueue; a QueueJob is named by its id, and the same job may
\* be enqueued again
Enqueue(job) ==
    /\ Len(log) < MaxQueueCalls
    /\ queue' = enqueue(job)
    /\ log' = Append(log, Call("enqueue", <<job>>, NULL))
    /\ UNCHANGED <<jobs, providers, payments, stripeConfigured, clock, reqs, ops,
                   response, call, runnerVars>>

Dequeue ==
    /\ Len(log) < MaxQueueCalls
    /\ queue' = dequeue.queue
    /\ log' = Append(log, Call("dequeue", <<>>, dequeue.result))
    /\ UNCHANGED <<jobs, providers, payments, stripeConfigured, clock, reqs, ops,
                   response, call, runnerVars>>

Size ==
    /\ Len(log) < MaxQueueCalls
    /\ log' = Append(log, Call("size", <<>>, size))
    /\ UNCHANGED <<jobs, providers, payments, stripeConfigured, clock, reqs, ops,
                   response, call, runnerVars, queue>>

NextQueue ==
    \/ \E j \in JobIds : Enqueue(j)
    \/ Dequeue
    \/ Size

\* a new JobQueue() and every sequence of up to MaxQueueCalls calls on it
QueueSpec == Init /\ [][NextQueue]_vars

\* ------------------------- index.ts: POST /jobs/report, a failing charge
\* chargeForJob rejects: the INSERT INTO payments fails (in simulatePayment, or in
\* the try block and again in the catch block of chargeForJob), the handler lands
\* in its catch block and answers 500 without reaching the provider update
ReportChargeThrows(s) ==
    /\ At(s, "report", "charge")
    /\ reqs' = [reqs EXCEPT ![s] = Idle]
    /\ response' = Response("report", 500, reqs[s].jobId, reqs[s].providerId)
    /\ UNCHANGED <<jobs, providers, payments, stripeConfigured, clock, ops, call,
                   runnerVars, queueVars>>

\* jobs pulled by providers and reported completed or failed, with a payments
\* table that may reject a row
NextRelease ==
    \/ \E u \in Users, i \in Images : PostJobs(u, i)
    \/ \E p \in Providers : RegisterNew(p)
    \/ \E s \in Slots, p \in Providers : AssignCheckProvider(s, p)
    \/ \E s \in Slots : AssignGetNextJob(s)
    \/ \E s \in Slots : AssignAssignJob(s)
    \/ \E s \in Slots : AssignSetBusy(s)
    \/ \E s \in Slots, j \in JobIds, p \in Providers, st \in {"completed", "failed"} :
          ReportGetJob(s, j, p, st, <<>>)
    \/ \E s \in Slots : ReportMarkCompleted(s)
    \/ \E s \in Slots : ReportMarkFailed(s)
    \/ \E s \in Slots : ReportCharge(s)
    \/ \E s \in Slots : ReportChargeThrows(s)
    \/ \E s \in Slots : ReportSetOnline(s)
    \/ Advance

\* a handler that has started goes on: each await of a pull or of a report
\* settles, the charge one way or the other.  Requests and the clock are the
\* environment's and may stop
ReleaseFairness ==
    \A s \in Slots :
        /\ WF_vars(AssignGetNextJob(s))
        /\ WF_vars(AssignAssignJob(s))
        /\ WF_vars(AssignSetBusy(s))
        /\ WF_vars(ReportMarkCompleted(s))
        /\ WF_vars(ReportMarkFailed(s))
        /\ WF_vars(ReportCharge(s) \/ ReportChargeThrows(s))
        /\ WF_vars(ReportSetOnline(s))

ReleaseSpec == Init /\ [][NextRelease]_vars /\ ReleaseFairness

\* ----------------------------------- job-runner.ts: a scheduler kept up
\* the runner while the orchestrator process stays up
NextLive ==
    \/ \E u \in Users, i \in Images : PostJobs(u, i)
    \/ \E p \in Providers : RegisterNew(p)
    \/ \E s \in Slots : Start(s)
    \/ Stop
    \/ \E s \in Slots : TimerFires(s)
    \/ \E s \in Slots : TickFind(s)
    \/ \E s \in Slots : TickGetNextJob(s)
    \/ \E s \in Slots : TickAssignJob(s)
    \/ \E s \in Slots : TickSetBusy(s)

\* an interval that is not cleared fires, and every job-store call a run of
\* processQueue awaits settles
LiveFairness ==
    /\ WF_vars(\E s \in Slots : TimerFires(s))
    /\ \A s \in Slots :
         /\ WF_vars(TickFind(s))
         /\ WF_vars(TickGetNextJob(s))
         /\ WF_vars(TickAssignJob(s))
         /\ WF_vars(TickSetBusy(s))

LiveSpec == Init /\ [][NextLive]_vars /\ LiveFairness

\* ---------------------------------------------------------------- claims
Active == {"assigned", "running"}
Terminal == {"completed", "failed"}

\* the jobs that reference provider p and are assigned or running
ActiveJobsOf(p) ==
    { j \in DOMAIN jobs : jobs[j].providerId = p /\ jobs[j].status \in Active }

PaymentsOf(j) == { i \in DOMAIN payments : payments[i].jobId = j }

\* C1: once a job has been assigned to a provider, no claim (of a tick or of a pull)
\* assigns it to another provider.
C1_AtMostOnceClaim ==
    [][\A j \in DOMAIN jobs :
          jobs[j].providerId # NULL => jobs'[j].providerId = jobs[j].providerId]_vars

\* the transitions of queued -> assigned -> running -> completed | failed
Forward ==
    { <<"queued", "assigned">>, <<"assigned", "running">>,
      <<"assigned", "completed">>, <<"assigned", "failed">>,
      <<"running", "completed">>, <<"running", "failed">> }

\* C2: a job's status only moves forward along queued -> assigned -> running ->
\* completed | failed: never backward, never into completed or failed from queued.
C2_StatusForward ==
    [][\A j \in DOMAIN jobs :
          \/ jobs'[j].status = jobs[j].status
          \/ <<jobs[j].status, jobs'[j].status>> \in Forward]_vars

\* C3: completed and failed are terminal: no step changes the status, the
\* finishedAt or the cost of a job that is completed or failed.
C3_TerminalFrozen ==
    [][\A j \in DOMAIN jobs :
          jobs[j].status \in Terminal =>
              /\ jobs'[j].status = jobs[j].status
              /\ jobs'[j].finishedAt = jobs[j].finishedAt
              /\ jobs'[j].cost = jobs[j].cost]_vars

\* C4: each provider is referenced by at most one assigned or running job.
C4_AtMostOneActiveJob ==
    \A p \in Providers : Cardinality(ActiveJobsOf(p)) <= 1

\* no handler is between two of its statements
Quiescent == \A s \in Slots : reqs[s] = Idle

\* C5: a busy provider is referenced by exactly one assigned or running job; stated
\* for the states in which no handler is in flight, where it has to hold whatever
\* a handler may do between two of its statements.
C5_BusyHasOneActiveJob ==
    Quiescent =>
        \A p \in Providers : providers[p] = "busy" => Cardinality(ActiveJobsOf(p)) = 1

\* C6: a job's user is charged at most once: no job has two payments that were
\* not declined.
C6_ChargedAtMostOnce ==
    \A j \in DOMAIN jobs :
        Cardinality({ i \in PaymentsOf(j) : payments[i].status # "failed" }) <= 1

\* C7: when a completed report with a cost > 0 returns success, the job is
\* completed with finishedAt set, the reporting provider is online, and exactly one
\* payment exists for the job, of the job's cost.
C7_CompletedReportSettles ==
    [][\A s \in Slots :
          ( /\ At(s, "report", "online")
            /\ reqs[s].status = "completed"
            /\ reqs[s].cost > 0
            /\ response'.op = "report"
            /\ response'.code = 200
            /\ reqs'[s] = Idle )
          => LET j == reqs[s].jobId
             IN /\ jobs'[j].status = "completed"
                /\ jobs'[j].finishedAt # NULL
                /\ providers'[reqs[s].providerId] = "online"
                /\ Cardinality({ i \in DOMAIN payments' : payments'[i].jobId = j }) = 1
                /\ \A i \in DOMAIN payments' :
                      payments'[i].jobId = j => payments'[i].amount = jobs'[j].cost]_vars

\* C8: the amount of a payment is the cost stored on its job when the payment is
\* made.
C8_AmountIsJobCost ==
    [][Len(payments') > Len(payments) =>
          LET pay == payments'[Len(payments')]
          IN pay.amount = jobs[pay.jobId].cost]_vars

\* a report for job j from provider p is received in this step
ReportArrives(j, p) ==
    /\ ops' = ops + 1
    /\ \/ /\ response'.op = "report"
          /\ response'.jobId = j
          /\ response'.providerId = p
       \/ \E s \in Slots :
             /\ reqs[s] = Idle
             /\ reqs'[s].kind = "report"
             /\ reqs'[s].jobId = j
             /\ reqs'[s].providerId = p

\* C9: a report from a provider that is not the job's providerId when the handler
\* reads the job (any report on a job without a provider included) is answered 403
\* and changes no job, no provider and no payment, and starts nothing.
C9_ForbiddenChangesNothing ==
    [][\A j \in DOMAIN jobs, p \in Providers :
          (ReportArrives(j, p) /\ jobs[j].providerId # p) =>
              /\ response'.op = "report"
              /\ response'.code = 403
              /\ UNCHANGED <<jobs, providers, payments, reqs>>]_vars

\* a provider's report on a job assigned to another provider was answered 403
C9_Witness ==
    /\ response.op = "report"
    /\ response.code = 403
    /\ response.jobId \in DOMAIN jobs
    /\ jobs[response.jobId].providerId # NULL
    /\ jobs[response.jobId].providerId # response.providerId

\* C10: when container-config generation fails for the job a pull has just
\* claimed (the pull answers 500), the job is queued again without a provider and
\* the provider is online.
C10_FailedConfigRequeues ==
    (response.op = "assign" /\ response.code = 500) =>
        /\ jobs[response.jobId].status = "queued"
        /\ jobs[response.jobId].providerId = NULL
        /\ providers[response.providerId] = "online"

\* C11: claims are FIFO: in a step that moves a job from queued to assigned, no
\* other job with an earlier creation time is queued.
C11_ClaimsAreFifo ==
    [][\A j \in DOMAIN jobs :
          (jobs[j].status = "queued" /\ jobs'[j].status = "assigned") =>
              \A k \in DOMAIN jobs :
                  jobs[k].status = "queued" => jobs[k].createdAt >= jobs[j].createdAt]_vars

\* a job was claimed while a job created later was queued, and still is
C11_Witness ==
    \E j, k \in DOMAIN jobs :
        /\ jobs[j].status = "assigned"
        /\ jobs[k].status = "queued"
        /\ jobs[k].createdAt > jobs[j].createdAt
        /\ jobs[k].createdAt <= jobs[j].startedAt

Range(f) == { f[i] : i \in DOMAIN f }

\* the tick in slot s takes a step
TickSteps(s) == reqs[s].kind = "tick" /\ reqs'[s] # reqs[s]

\* the available providers the tick in slot s read: those it has served and those
\* still ahead in its loop
Listed(s) == reqs[s].served \cup Range(reqs[s].avail)

\* C12: a tick assigns at most one job to each provider of the list it read (never
\* to a provider it has already served, never to one outside the list), hence at
\* most as many jobs as the list is long; when it finds no queued job it stops; and
\* each of its steps leaves every job but the one it assigns as it was.
C12_TickOnePerProvider ==
    [][\A s \in Slots :
          TickSteps(s) =>
              /\ At(s, "tick", "assignJob") =>
                    /\ reqs[s].providerId \notin reqs[s].served
                    /\ reqs[s].providerId \in Range(reqs[s].avail)
                    /\ jobs'[reqs[s].jobId].providerId = reqs[s].providerId
                    /\ Listed(s)' = Listed(s)
                    /\ Cardinality(reqs'[s].served) <= Cardinality(Listed(s))
              /\ (At(s, "tick", "getNextJob") /\ getNextJob = {}) =>
                    /\ reqs'[s] = Idle
                    /\ jobs' = jobs
              /\ \A k \in DOMAIN jobs :
                    ~(At(s, "tick", "assignJob") /\ k = reqs[s].jobId) =>
                        jobs'[k] = jobs[k]]_vars

\* a tick that read two available providers has served one and left a job queued
C12_Witness ==
    \E s \in Slots :
        /\ reqs[s].kind = "tick"
        /\ Cardinality(reqs[s].served) = 1
        /\ Len(reqs[s].avail) = 1
        /\ reqs[s].served # Range(reqs[s].avail)
        /\ \E k \in DOMAIN jobs : jobs[k].status = "queued"

\* C13: a tick that finds no online provider, and a claim attempt (of a tick or of
\* a pull) that finds no queued job, end there and change no job, no provider and
\* no payment.
C13_NothingFoundChangesNothing ==
    [][\A s \in Slots :
          (reqs'[s] # reqs[s]) =>
              /\ ( /\ At(s, "tick", "find")
                    /\ \A p \in Providers : providers[p] # "online" ) =>
                    /\ reqs'[s] = Idle
                    /\ UNCHANGED <<jobs, providers, payments>>
              /\ ( /\ reqs[s].pc = "getNextJob"
                    /\ \A k \in DOMAIN jobs : jobs[k].status # "queued" ) =>
                    /\ reqs'[s] = Idle
                    /\ UNCHANGED <<jobs, providers, payments>>]_vars

\* a pull found no queued job among the jobs there are and was answered noJob
C13_Witness ==
    /\ response.op = "assign"
    /\ response.code = 200
    /\ response.jobId = NULL
    /\ Len(jobs) > 0
    /\ \E p \in Providers : providers[p] = "busy"

\* the report handler in slot s takes its step pc
ReportSteps(s, pc) == At(s, "report", pc) /\ reqs'[s] # reqs[s]

\* C14: markRunning takes effect only on a job whose status is assigned; on a job
\* in any other status it fails and leaves the job store unchanged.
C14_MarkRunningOnlyFromAssigned ==
    [][\A s \in Slots :
          ReportSteps(s, "running") =>
              IF jobs[reqs[s].jobId].status = "assigned"
              THEN jobs'[reqs[s].jobId].status = "running"
              ELSE jobs' = jobs]_vars

\* C15: markCompleted and markFailed take effect only on a job whose status is
\* assigned or running; on a queued, completed or failed job they fail and leave
\* its status, finishedAt and cost unchanged.
C15_MarkDoneOnlyFromActive ==
    [][\A s \in Slots :
          (ReportSteps(s, "completed") \/ ReportSteps(s, "failed")) =>
              LET j == reqs[s].jobId
              IN IF jobs[j].status \in Active
                 THEN jobs'[j].status = reqs[s].status
                 ELSE /\ jobs'[j].status = jobs[j].status
                      /\ jobs'[j].finishedAt = jobs[j].finishedAt
                      /\ jobs'[j].cost = jobs[j].cost]_vars

\* C16, as the specification states it: a job's startedAt is set if and only if
\* its status is running, completed or failed and the job has been assigned.
C16_StartedAtIffRunningOrDone ==
    \A j \in DOMAIN jobs :
        (jobs[j].startedAt # NULL) <=>
            (jobs[j].status \in {"running", "completed", "failed"}
                /\ jobs[j].providerId # NULL)

\* C16, amended: a job's startedAt is set if and only if the job has been
\* assigned, that is, if and only if its status is assigned, running, completed or
\* failed.
C16_StartedAtIffAssigned ==
    \A j \in DOMAIN jobs :
        /\ (jobs[j].startedAt # NULL) <=> (jobs[j].providerId # NULL)
        /\ (jobs[j].startedAt # NULL) <=>
              (jobs[j].status \in {"assigned", "running", "completed", "failed"})

\* a job is assigned, not yet running, with startedAt set, next to a queued one
C16_Witness ==
    \E j, k \in DOMAIN jobs :
        /\ jobs[j].status = "assigned"
        /\ jobs[j].startedAt # NULL
        /\ jobs[k].status = "queued"
        /\ jobs[k].startedAt = NULL

\* C17: a job's finishedAt is set if and only if its status is completed or
\* failed, and the cost of every queued, assigned or running job is 0.
C17_FinishedAtIffTerminal ==
    \A j \in DOMAIN jobs :
        /\ (jobs[j].finishedAt # NULL) <=> (jobs[j].status \in Terminal)
        /\ jobs[j].status \notin Terminal => jobs[j].cost = 0

\* C18: every job's stored cost is >= 0.
C18_CostNonNegative ==
    \A j \in DOMAIN jobs : jobs[j].cost >= 0

\* C19: every charge with amount > 0 returns a result and records exactly one
\* payment row, succeeded when the result is a success, failed when it is not.
C19_ChargeRecordsOutcome ==
    [][\A j \in JobIds, a \in Amounts \ {0}, ok \in BOOLEAN :
          Charge(j, a, ok) =>
              /\ Len(payments') = Len(payments) + 1
              /\ payments'[Len(payments')].jobId = j
              /\ payments'[Len(payments')].status =
                    IF response'.code = 1 THEN "succeeded" ELSE "failed"]_vars

\* C20: a charge with amount = 0 returns a success result and creates no payment
\* row, in real mode and in simulation mode.
C20_ZeroChargeIsNoOp ==
    [][\A j \in JobIds, ok \in BOOLEAN :
          Charge(j, 0, ok) =>
              /\ payments' = payments
              /\ response'.code = 1]_vars

ProviderRows == { p \in Providers : providers[p] # "absent" }

\* the registration in slot s takes its step pc
RegisterSteps(s, pc) == At(s, "register", pc) /\ reqs'[s] # reqs[s]

\* C22: registering an id that has a row sets that provider online and adds no
\* row; registering an id without a row, or no id, adds exactly one row, online;
\* a registration that finds its id taken by a concurrent one adds none. So the
\* same id registered twice, one after the other or at once, has one row.
C22_RegisterIdempotent ==
    [][/\ \A s \in Slots :
             /\ RegisterSteps(s, "update") =>
                   /\ ProviderRows' = ProviderRows
                   /\ providers' = [providers EXCEPT ![reqs[s].providerId] = "online"]
                   /\ response'.code = 200
             /\ RegisterSteps(s, "insert") =>
                   IF reqs[s].providerId \in ProviderRows
                   THEN providers' = providers
                   ELSE /\ ProviderRows' = ProviderRows \cup {reqs[s].providerId}
                        /\ providers' = [providers EXCEPT ![reqs[s].providerId] = "online"]
                        /\ response'.code = 200
       /\ (response'.op = "register" /\ reqs' = reqs /\ response' # response) =>
             \E p \in Providers \ ProviderRows :
                 /\ ProviderRows' = ProviderRows \cup {p}
                 /\ providers' = [providers EXCEPT ![p] = "online"]]_vars

\* a busy provider has registered again and is online, next to another provider
C22_Witness ==
    /\ response.op = "register"
    /\ response.code = 200
    /\ providers[response.providerId] = "online"
    /\ \E j \in DOMAIN jobs : jobs[j].providerId = response.providerId
    /\ Cardinality(ProviderRows) = 2

\* C23: createJob stores a new job with status queued, cost 0, no provider and no
\* startedAt or finishedAt; when the image is empty or malformed it fails and
\* creates no job.
C23_CreateJobValidates ==
    [][\A u \in Users, i \in Images :
          CreateJob(u, i) =>
              IF Len(i) = 0 \/ ~validateImageName(i)
              THEN jobs' = jobs
              ELSE /\ Len(jobs') = Len(jobs) + 1
                   /\ jobs'[Len(jobs')].status = "queued"
                   /\ jobs'[Len(jobs')].cost = 0
                   /\ jobs'[Len(jobs')].providerId = NULL
                   /\ jobs'[Len(jobs')].startedAt = NULL
                   /\ jobs'[Len(jobs')].finishedAt = NULL]_vars

\* C24: on a completed report the handler's cost is rate x measured duration
\* whenever the report supplies one, the wall-clock cost from startedAt to now only
\* when it supplies none; and that cost is the cost recorded on the job.
C24_CompletedCost ==
    [][/\ \A s \in Slots, j \in DOMAIN jobs, p \in Providers, et \in ExecTimes :
             (ReportGetJob(s, j, p, "completed", et) /\ reqs'[s].kind = "report") =>
                 reqs'[s].cost =
                     IF et # <<>>
                     THEN et[1] * RateCentsPerMinute
                     ELSE calculateJobCost(jobs[j].startedAt, clock)
       /\ \A s \in Slots :
             ReportSteps(s, "completed") =>
                 jobs'[reqs[s].jobId].cost = reqs[s].cost]_vars

C26_CostIsRateTimesMinutes ==
    call.fn = "calculateJobCost" =>
        LET startedAt == call.args[1]
            endedAt == call.args[2]
            elapsed == IF endedAt > startedAt THEN endedAt - startedAt ELSE 0
        IN /\ call.result >= 0
           /\ MsPerMinute * (2 * call.result - 1) <= 2 * elapsed * RateCentsPerMinute
           /\ 2 * elapsed * RateCentsPerMinute < MsPerMinute * (2 * call.result + 1)
           /\ endedAt = startedAt => call.result = 0
           /\ endedAt - startedAt = 10 * MsPerMinute => call.result = 100

\* C27: calculateProviderEarnings(cost) is cost x 0.8 rounded to cents, for every
\* cost >= 0 in cents: 0.80 for 1.00, and never more than the cost.
C27_EarningsAreEightyPercent ==
    call.fn = "calculateProviderEarnings" =>
        LET cost == call.args[1]
        IN /\ 10 * call.result - 5 <= 8 * cost
           /\ 8 * cost < 10 * call.result + 5
           /\ call.result <= cost
           /\ cost = 100 => call.result = 80

\* the earnings of a cost of 1.00 were computed: 0.80
C27_Witness ==
    /\ call.fn = "calculateProviderEarnings"
    /\ call.args[1] = 100
    /\ call.result = 80

\* the references of the form [registry/]repository[:tag]: path segments of
\* lowercase letters and digits with single '-', '_' or '.' separators inside, and
\* a tag of 1 to 128 characters of [A-Za-z0-9_.-]
Separators == {"-", "_", "."}

IsSegment(s) ==
    /\ Len(s) >= 1
    /\ \A i \in 1 .. Len(s) : s[i] \in Lower \cup Digit \cup Separators
    /\ s[1] \notin Separators
    /\ s[Len(s)] \notin Separators
    /\ \A i \in 1 .. Len(s) - 1 : ~(s[i] \in Separators /\ s[i + 1] \in Separators)

IsPath(p) ==
    /\ Len(p) >= 1
    /\ p[1] # "/"
    /\ p[Len(p)] # "/"
    /\ \A i \in 1 .. Len(p) - 1 : ~(p[i] = "/" /\ p[i + 1] = "/")
    /\ \A a, b \in 1 .. Len(p) :
          ( /\ a <= b
            /\ \A i \in a .. b : p[i] # "/"
            /\ a = 1 \/ p[a - 1] = "/"
            /\ b = Len(p) \/ p[b + 1] = "/" ) => IsSegment(SubSeq(p, a, b))

IsTag(t) ==
    /\ Len(t) >= 1
    /\ Len(t) <= 128
    /\ \A i \in 1 .. Len(t) : t[i] \in Lower \cup Upper \cup Digit \cup Separators

IsReference(ref) ==
    /\ Len(ref) >= 1
    /\ IF ColonAt(ref) = {}
       THEN IsPath(ref)
       ELSE \E c \in ColonAt(ref) :
                /\ IsPath(SubSeq(ref, 1, c - 1))
                /\ IsTag(SubSeq(ref, c + 1, Len(ref)))

\* C28: validateImageName accepts exactly the references of the form
\* [registry/]repository[:tag]: "pytorch/pytorch:latest", but not the empty string
\* and no reference with an uppercase letter in a path segment, such as
\* "UPPER:tag".
C28_AcceptsExactlyReferences ==
    call.fn = "validateImageName" =>
        LET ref == call.args[1]
        IN /\ call.result = IsReference(ref)
           /\ ref = PytorchLatest => call.result = TRUE
           /\ ref = <<>> => call.result = FALSE
           /\ ref = UpperTag => call.result = FALSE

\* the jobs of user u that a listing with filter st is to show
Matching(u, st) ==
    { j \in DOMAIN jobs : jobs[j].userId = u /\ (st = "" \/ jobs[j].status = st) }

\* C29: listJobsForUser(userId, limit, status) returns only jobs of that user with
\* that status (all of the user's jobs without a filter), each once, newest first,
\* the newest limit of them (all when they are fewer); so a completed job is not in
\* the queued listing and is in the completed one.
C29_ListingFiltersAndOrders ==
    \A u \in ListUsers, limit \in Limits, st \in StatusFilters :
        \A l \in listJobsForUser(u, limit, st) :
            /\ \A a \in 1 .. Len(l) : l[a] \in Matching(u, st)
            /\ \A a, b \in 1 .. Len(l) : a < b => l[a] # l[b]
            /\ \A a, b \in 1 .. Len(l) :
                  a < b => jobs[l[a]].createdAt >= jobs[l[b]].createdAt
            /\ Len(l) <= limit
            /\ Len(l) < limit => Range(l) = Matching(u, st)
            /\ \A j \in Matching(u, st) \ Range(l) :
                  \A a \in 1 .. Len(l) : jobs[l[a]].createdAt >= jobs[j].createdAt
            /\ \A j \in DOMAIN jobs :
                  (jobs[j].status = "completed" /\ jobs[j].userId = u) =>
                      /\ st = "queued" => j \notin Range(l)
                      /\ (st = "completed" /\ limit = MaxLimit) => j \in Range(l)

\* the older job of a user is completed and the newer one queued, so the listings
\* for completed and for queued differ
C29_Witness ==
    \E j, k \in DOMAIN jobs :
        /\ jobs[j].userId = jobs[k].userId
        /\ jobs[j].status = "completed"
        /\ jobs[k].status = "queued"
        /\ jobs[k].createdAt > jobs[j].createdAt
        /\ listJobsForUser(jobs[j].userId, MaxLimit, "completed") = { <<j>> }
        /\ listJobsForUser(jobs[j].userId, MaxLimit, "queued") = { <<k>> }
        /\ listJobsForUser(jobs[j].userId, MaxLimit, "") = { <<k, j>> }

TickBegins(s) == reqs[s].kind # "tick" /\ reqs'[s].kind = "tick"

\* C31: once stop() has returned no run of processQueue begins until start() is
\* called again (a run begins only on a runner that is running when the step
\* ends), and a run in progress is not interrupted: every change to its slot is a
\* step of its own, up to its last job-store call.
C31_StopIsGraceful ==
    [][\A s \in Slots :
          /\ TickBegins(s) => isRunning'
          /\ reqs[s].kind = "tick" /\ reqs'[s] # reqs[s] =>
                \/ TickFind(s)
                \/ TickGetNextJob(s)
                \/ TickAssignJob(s)
                \/ TickSetBusy(s)]_vars

\* the jobs enqueued by the first n calls of the log, in the order of the calls
Enqueued(n) ==
    LET calls == SelectSeq(SubSeq(log, 1, n), LAMBDA c : c.fn = "enqueue")
    IN [i \in DOMAIN calls |-> calls[i].args[1]]

\* the jobs the dequeue calls among the first n calls returned, in that order
Dequeued(n) ==
    LET calls == SelectSeq(SubSeq(log, 1, n),
                           LAMBDA c : c.fn = "dequeue" /\ c.result # NULL)
    IN [i \in DOMAIN calls |-> calls[i].result]

TicksInFlight == { s \in Slots : reqs[s].kind = "tick" }

\* C33: two runs of processQueue of the JobRunner never execute concurrently: at
\* most one run is awaiting job-store calls at any time, whether begun by start()
\* or by the timer.
C33_TicksNeverOverlap == Cardinality(TicksInFlight) <= 1

\* C34 as stated: a running report changes only the job's status; the startedAt
\* written by the claim is left as it was.
C34_RunningKeepsStartedAt ==
    [][\A s \in Slots :
          ReportMarkRunning(s) =>
              jobs' = [jobs EXCEPT ![reqs[s].jobId].status = "running"]]_vars

\* C34, amended: a running report sets the job's status to running and its
\* startedAt to the time of the report, and changes nothing else; the wall-clock
\* cost of a completed report without a measured duration is computed from the
\* startedAt the job has when the report arrives, that of the latest running
\* report or else of the claim.
C34_RunningResetsStartedAt ==
    [][\A s \in Slots :
          /\ ReportMarkRunning(s) =>
                /\ jobs' = [jobs EXCEPT ![reqs[s].jobId].status = "running",
                                        ![reqs[s].jobId].startedAt = clock]
                /\ UNCHANGED <<providers, payments>>
          /\ \A j \in DOMAIN jobs :
                /\ ReportGetJob(s, j, jobs[j].providerId, "completed", <<>>)
                /\ reqs'[s].kind = "report"
                => reqs'[s].cost = calculateJobCost(jobs[j].startedAt, clock)]_vars

\* a running report has just been answered 200 for a job created before the
\* clock advanced: the job is running and its startedAt is the time of the report
C34_Witness ==
    /\ response.op = "report" /\ response.code = 200
    /\ response.jobId \in DOMAIN jobs
    /\ jobs[response.jobId].status = "running"
    /\ jobs[response.jobId].startedAt = clock
    /\ jobs[response.jobId].createdAt < clock

\* a report for a job run by provider p has marked the job completed or failed
\* and has not answered yet
Settling(p) ==
    \E s \in Slots :
        /\ reqs[s].kind = "report"
        /\ reqs[s].pc \in {"charge", "online"}
        /\ reqs[s].providerId = p

\* C35: a provider is always released: once a report has marked its job completed
\* or failed the provider is eventually online, also when the charge fails with a
\* store or payment error; and a provider that is busy without an assigned or
\* running job does not stay busy forever.
C35_ProviderReleased ==
    \A p \in Providers :
        /\ Settling(p) ~> providers[p] = "online"
        /\ (providers[p] = "busy" /\ ActiveJobsOf(p) = {}) ~> providers[p] # "busy"

C37_PullRefusesUnavailable ==
    [][\A s \in Slots :
          /\ \A p \in Providers :
                AssignCheckProvider(s, p) /\ providers[p] # "online" =>
                    /\ response'.op = "assign" /\ response'.code = 400
                    /\ UNCHANGED <<jobs, providers, payments, reqs>>
          /\ AssignAssignJob(s) =>
                ~ /\ providers[reqs[s].providerId] = "busy"
                  /\ ActiveJobsOf(reqs[s].providerId) \ {reqs[s].jobId} # {}]_vars

\* C38: every job created through POST /jobs has an image validateImageName
\* accepts, generateContainerConfig throws on exactly the images it rejects, and
\* so no pull that has assigned a job answers with an error.
C38_PulledJobsGetConfig ==
    /\ \A j \in DOMAIN jobs :
          /\ validateImageName(jobs[j].dockerImage)
          /\ ~generateContainerConfigThrows(jobs[j].dockerImage)
    /\ ~ /\ response.op = "assign"
         /\ response.code >= 400
         /\ response.jobId # NULL

\* a pull has just answered 200 with the job it assigned
C38_Witness ==
    /\ response.op = "assign" /\ response.code = 200
    /\ response.jobId \in DOMAIN jobs
    /\ jobs[response.jobId].status = "assigned"
    /\ jobs[response.jobId].providerId = response.providerId

\* C39: whatever the sequence of start() and stop() calls, the JobRunner has at
\* most one interval, the one in pollingInterval, and isRunning is true exactly
\* when it has one; start() on a running runner creates no interval and begins no
\* run of processQueue, and stop() on a runner that is not running changes nothing.
C39_AtMostOneTimer ==
    /\ [](/\ Cardinality(timers) <= 1
          /\ isRunning <=> timers # {}
          /\ timers = IF pollingInterval = NULL THEN {} ELSE {pollingInterval})
    /\ [][/\ \A s \in Slots :
                isRunning /\ Start(s) => UNCHANGED <<runnerVars, reqs, jobs, providers>>
          /\ ~isRunning /\ Stop => UNCHANGED <<runnerVars, reqs, jobs, providers>>]_vars

\* the runner is running on its one interval, with a run of processQueue in
\* flight and a job already assigned by an earlier run
C39_Witness ==
    /\ isRunning
    /\ timers = {pollingInterval}
    /\ TicksInFlight # {}
    /\ \E j \in DOMAIN jobs : jobs[j].status = "assigned"
====
